---- MODULE Spec2Model ----
(***************************************************************************)
(* A model of CLF3721/Custom-Classes: the two data wranglers               *)
(* (data_wrangler_local.py, data_wrangler_s3.py) and the schema generator  *)
(* (schema_generator.py).                                                  *)
(*                                                                         *)
(* Python strings are modelled as sequences of one-character strings, so   *)
(* that strip, split, upper, endswith, re.sub and sorted are computed      *)
(* character by character as the interpreter computes them.                *)
(***************************************************************************)
EXTENDS Integers, Sequences, FiniteSets, TLC

VARIABLES
    \* _clean_column_names applied to one name, and applied again
    col, clean1, clean2,
    \* _clean_dataframe: the decoded table and the cleaned table
    df_raw, df_clean,
    \* a wrangler object (either class), its backing store and one call of it
    variant, listing, content, file_keys, pc, idx, dfs, written, stdout,
    processed, zipped, calls, prev_processed,
    \* SchemaGenerator: the feature matrix, the target path, the file system
    features_df, features, filepath, files

namesVars == <<col, clean1, clean2>>
cleanVars == <<df_raw, df_clean>>
wranglerVars == <<variant, listing, content, file_keys, pc, idx, dfs, written,
                  stdout, processed, zipped, calls, prev_processed>>
schemaVars == <<features_df, features, filepath, files>>
vars == <<namesVars, cleanVars, wranglerVars, schemaVars>>

(***************************************************************************)
(* Bounds of the model.                                                    *)
(***************************************************************************)
MaxNameLen == 5
MaxRows == 3
MaxObjects == 3
MaxCalls == 2
MaxFeatures == 3

(***************************************************************************)
(* Characters and strings.                                                 *)
(***************************************************************************)
LowerLetters == <<"a","b","c","d","e","f","g","h","i","j","k","l","m",
                  "n","o","p","q","r","s","t","u","v","w","x","y","z">>
UpperLetters == <<"A","B","C","D","E","F","G","H","I","J","K","L","M",
                  "N","O","P","Q","R","S","T","U","V","W","X","Y","Z">>

\* The characters of the model in code-point order (what str comparison uses).
CharOrder == <<"\t", "\n", " ", "(", ")", ".", "/">> \o UpperLetters
             \o <<"_">> \o LowerLetters

Range(f) == {f[i] : i \in DOMAIN f}

IsLower(c) == c \in Range(LowerLetters)
IsUpper(c) == c \in Range(UpperLetters)
IsSpace(c) == c \in {" ", "\t", "\n"}

IndexIn(seq, c) == CHOOSE i \in DOMAIN seq : seq[i] = c
Ord(c) == IndexIn(CharOrder, c)

UpperChar(c) == IF IsLower(c) THEN UpperLetters[IndexIn(LowerLetters, c)] ELSE c
LowerChar(c) == IF IsUpper(c) THEN LowerLetters[IndexIn(UpperLetters, c)] ELSE c

\* str.upper() and str.lower()
StrUpper(s) == [i \in DOMAIN s |-> UpperChar(s[i])]
StrLower(s) == [i \in DOMAIN s |-> LowerChar(s[i])]

\* str.strip(): drop the leading and the trailing whitespace run
RECURSIVE LStrip(_)
LStrip(s) == IF s # <<>> /\ IsSpace(Head(s)) THEN LStrip(Tail(s)) ELSE s
RECURSIVE RStrip(_)
RStrip(s) ==
    IF s # <<>> /\ IsSpace(s[Len(s)]) THEN RStrip(SubSeq(s, 1, Len(s) - 1)) ELSE s
StrStrip(s) == RStrip(LStrip(s))

\* str.split() with no separator: the maximal runs of non-whitespace
RECURSIVE SplitWs(_, _)
SplitWs(s, word) ==
    IF s = <<>> THEN (IF word = <<>> THEN <<>> ELSE <<word>>)
    ELSE IF IsSpace(Head(s))
         THEN (IF word = <<>> THEN <<>> ELSE <<word>>) \o SplitWs(Tail(s), <<>>)
         ELSE SplitWs(Tail(s), Append(word, Head(s)))
StrSplit(s) == SplitWs(s, <<>>)

\* sep.join(words)
RECURSIVE StrJoin(_, _)
StrJoin(sep, words) ==
    IF words = <<>> THEN <<>>
    ELSE IF Len(words) = 1 THEN words[1]
    ELSE words[1] \o sep \o StrJoin(sep, Tail(words))

\* str.replace(old, new) for one-character old and new
StrReplace(s, old, new) == [i \in DOMAIN s |-> IF s[i] = old THEN new ELSE s[i]]

\* str.endswith(suffix)
EndsWith(s, suffix) ==
    /\ Len(s) >= Len(suffix)
    /\ SubSeq(s, Len(s) - Len(suffix) + 1, Len(s)) = suffix

\* s < t for Python strings: lexicographic by code point
RECURSIVE StrLess(_, _)
StrLess(s, t) ==
    IF t = <<>> THEN FALSE
    ELSE IF s = <<>> THEN TRUE
    ELSE IF Head(s) = Head(t) THEN StrLess(Tail(s), Tail(t))
    ELSE Ord(Head(s)) < Ord(Head(t))

(***************************************************************************)
(* NameTransformer: _clean_column_names.                                   *)
(***************************************************************************)
\* The end of the match of  \s*\([^)]*\)  that starts at position i of s, or 0
\* when the pattern does not match there: a whitespace run, then "(", then
\* everything up to the first ")".
FirstNonSpace(s, i) ==
    IF \E j \in i..Len(s) : ~IsSpace(s[j])
    THEN CHOOSE j \in i..Len(s) :
            ~IsSpace(s[j]) /\ \A k \in i..(j - 1) : IsSpace(s[k])
    ELSE 0
ParenMatchEnd(s, i) ==
    LET j == FirstNonSpace(s, i) IN
    IF j = 0 \/ s[j] # "(" THEN 0
    ELSE IF \E k \in (j + 1)..Len(s) : s[k] = ")"
         THEN CHOOSE k \in (j + 1)..Len(s) :
                 s[k] = ")" /\ \A m \in (j + 1)..(k - 1) : s[m] # ")"
         ELSE 0

\* re.sub(r'\s*\([^)]*\)', '', s): scan left to right, delete each match and
\* resume after it; a character where no match starts is copied.
RECURSIVE ReSubFrom(_, _)
ReSubFrom(s, i) ==
    IF i > Len(s) THEN <<>>
    ELSE LET e == ParenMatchEnd(s, i) IN
         IF e > 0 THEN ReSubFrom(s, e + 1)
         ELSE <<s[i]>> \o ReSubFrom(s, i + 1)
\* the slip re.sub(..., count=1): only the first match is deleted
RemoveFirstParenthesized(s) ==
    IF \E i \in DOMAIN s : ParenMatchEnd(s, i) > 0
    THEN LET i == CHOOSE i \in DOMAIN s :
                     ParenMatchEnd(s, i) > 0 /\ \A j \in 1..(i - 1) : ParenMatchEnd(s, j) = 0
         IN  SubSeq(s, 1, i - 1) \o SubSeq(s, ParenMatchEnd(s, i) + 1, Len(s))
    ELSE s
RemoveParenthesized(s) == ReSubFrom(s, 1)

\* line 1 of the body: ' '.join(col.strip().split())
CollapseWhitespace(name) == StrJoin(<<" ">>, StrSplit(StrStrip(name)))

\* the slip of leaving out .upper()
SnakeOnly(name) == StrReplace(StrStrip(name), " ", "_")
\* line 3 of the body: col.upper().strip().replace(' ', '_')
ScreamingSnake(name) == StrReplace(StrStrip(StrUpper(name)), " ", "_")

Transform(name) == ScreamingSnake(RemoveParenthesized(CollapseWhitespace(name)))

CleanColumnNames(columns) == [i \in DOMAIN columns |-> Transform(columns[i])]

(***************************************************************************)
(* Tables.  A DataFrame is its column labels, one dtype per column and its *)
(* rows in index order (the index is 0..n-1, the positions of the rows).   *)
(* A cell is a str, a missing value (NaN) or an integer.                   *)
(***************************************************************************)
Str(s) == [kind |-> "str", s |-> s, n |-> 0]
NaN == [kind |-> "nan", s |-> <<>>, n |-> 0]
Int64(n) == [kind |-> "int", s |-> <<>>, n |-> n]

EmptyDf == [columns |-> <<>>, dtypes |-> <<>>, rows |-> <<>>]

\* the slip of leaving out .str.lower()
StrStripOnly(cell) ==
    IF cell.kind = "str" THEN Str(StrStrip(cell.s)) ELSE NaN
\* Series.str.strip().str.lower() on one element of an object column: a str is
\* stripped and lower-cased, anything else (a missing value) comes out as NaN.
StrStripLower(cell) ==
    IF cell.kind = "str" THEN Str(StrLower(StrStrip(cell.s))) ELSE NaN

\* for col in df.select_dtypes(include=['object']).columns:
\*     df[col] = df[col].str.strip().str.lower()
NormalizeRow(dtypes, row) ==
    [c \in DOMAIN row |->
        IF dtypes[c] = "object" THEN StrStripLower(row[c]) ELSE row[c]]
NormalizeObjectColumns(df) ==
    [df EXCEPT !.rows = [r \in DOMAIN df.rows |-> NormalizeRow(df.dtypes, df.rows[r])]]

\* DataFrame.drop_duplicates(ignore_index=True): keep the first occurrence of
\* every row (all columns compared, NaN equal to NaN), renumber from 0.
RECURSIVE DropDuplicatesFrom(_, _)
DropDuplicatesFrom(rows, i) ==
    IF i > Len(rows) THEN <<>>
    ELSE (IF \E j \in 1..(i - 1) : rows[j] = rows[i] THEN <<>> ELSE <<rows[i]>>)
         \o DropDuplicatesFrom(rows, i + 1)
\* the slip drop_duplicates(subset=<first column>): rows compared on one column
RECURSIVE DropDuplicatesFirstColumnFrom(_, _)
DropDuplicatesFirstColumnFrom(rows, i) ==
    IF i > Len(rows) THEN <<>>
    ELSE (IF \E j \in 1..(i - 1) : rows[j][1] = rows[i][1] THEN <<>> ELSE <<rows[i]>>)
         \o DropDuplicatesFirstColumnFrom(rows, i + 1)
DropDuplicatesFirstColumn(rows) == DropDuplicatesFirstColumnFrom(rows, 1)
DropDuplicates(rows) == DropDuplicatesFrom(rows, 1)

\* _clean_dataframe: works on a copy, so the argument is left as it was.
CleanDataframe(df) ==
    LET normalized == NormalizeObjectColumns(df)
        deduped == [normalized EXCEPT !.rows = DropDuplicates(normalized.rows)]
    IN  [deduped EXCEPT !.columns = CleanColumnNames(deduped.columns)]

(***************************************************************************)
(* The backing store of a wrangler: file references and what decoding      *)
(* each one gives.  A reference is an S3 object key (s3DataWrangler) or    *)
(* the name of an entry of the directory (LocalDataWrangler: every path    *)
(* is directory/name, so paths compare as their names do).                 *)
(***************************************************************************)
ExtCsv == <<".", "c", "s", "v">>
ExtJson == <<".", "j", "s", "o", "n">>
ExtParquet == <<".", "p", "a", "r", "q", "u", "e", "t">>
ExtXlsx == <<".", "x", "l", "s", "x">>
Prefix == <<"p", "/", "q", "/">>

\* the keys a bucket may hold: a.csv, p/q/ (a directory marker), p/q/a.csv,
\* p/q/b.json, p/q/c.xlsx
S3Keys == { <<"a">> \o ExtCsv, Prefix, Prefix \o <<"a">> \o ExtCsv,
            Prefix \o <<"b">> \o ExtJson, Prefix \o <<"c">> \o ExtXlsx }
\* the entries a directory may hold: a.csv, b.csv, .csv, .csv.csv, n.json
LocalNames == { <<"a">> \o ExtCsv, <<"b">> \o ExtCsv, ExtCsv, ExtCsv \o ExtCsv,
                <<"n">> \o ExtJson }

\* What the table decoders return for a reference whose content is well formed.
ColUnitPrice == <<"U","n","i","t"," ","P","r","i","c","e"," ","(","U","S","D",")">>
ColCity == <<" ", "C", "i", "t", "y">>
ColQty == <<"q", "t", "y">>
TableA ==
    [columns |-> <<ColCity, ColQty>>, dtypes |-> <<"object", "int64">>,
     rows |-> << <<Str(<<"O","s","l","o"," ">>), Int64(1)>>,
                 <<Str(<<"o","s","l","o">>), Int64(1)>> >>]
TableB ==
    [columns |-> <<ColUnitPrice>>, dtypes |-> <<"int64">>,
     rows |-> << <<Int64(2)>>, <<Int64(2)>>, <<Int64(1)>> >>]
DecodedTable(ref) == IF EndsWith(ref, ExtCsv) THEN TableA ELSE TableB

\* An injective sequence over a subset of S: a listing in whatever order the
\* service or the operating system returns it.
Listings(S, n) ==
    UNION {{q \in [1..k -> S] : \A i, j \in 1..k : i # j => q[i] # q[j]} : k \in 0..n}

\* sorted(seq) on strings: insertion sort by StrLess
RECURSIVE InsertSorted(_, _)
InsertSorted(x, seq) ==
    IF seq = <<>> THEN <<x>>
    ELSE IF StrLess(x, Head(seq)) THEN <<x>> \o seq
    ELSE <<Head(seq)>> \o InsertSorted(x, Tail(seq))
RECURSIVE SortFrom(_, _)
SortFrom(seq, i) ==
    IF i = 0 THEN <<>> ELSE InsertSorted(seq[i], SortFrom(seq, i - 1))
\* the slip of iterating the list as enumerated, without sorted()
Unsorted(seq) == seq
Sorted(seq) == SortFrom(seq, Len(seq))

\* '.' in e
HasDot(e) == \E i \in DOMAIN e : e[i] = "."

\* s3DataWrangler.__init__: the keys of the listing that contain a '.'
S3FileKeys(object_contents) == SelectSeq(object_contents, HasDot)

\* Path.glob('*.csv') over the entries of the directory, in directory order
\* (pathlib's '*' also matches names that begin with a dot)
MatchesCsvGlob(name) == EndsWith(name, ExtCsv)
Glob(entries) == SelectSeq(entries, MatchesCsvGlob)

\* PurePath.stem: the name up to its last dot, unless that dot is the first or
\* the last character of the name
LastDot(name) ==
    IF HasDot(name)
    THEN CHOOSE i \in DOMAIN name :
            name[i] = "." /\ \A j \in (i + 1)..Len(name) : name[j] # "."
    ELSE 0
Stem(name) ==
    LET i == LastDot(name) IN
    IF 1 < i /\ i < Len(name) THEN SubSeq(name, 1, i - 1) ELSE name

\* re.split(r"[./]+", s): the pieces between the runs of '.' and '/', with an
\* empty piece before a leading run and after a trailing one
IsSep(c) == c \in {".", "/"}
RECURSIVE SplitSep(_, _, _)
SplitSep(s, part, prevSep) ==
    IF s = <<>> THEN <<part>>
    ELSE IF IsSep(Head(s))
         THEN (IF prevSep THEN SplitSep(Tail(s), part, TRUE)
               ELSE <<part>> \o SplitSep(Tail(s), <<>>, TRUE))
         ELSE SplitSep(Tail(s), Append(part, Head(s)), FALSE)
ReSplit(s) == SplitSep(s, <<>>, FALSE)

\* s.rsplit('.', 1)
RSplitDot(s) ==
    LET i == LastDot(s) IN
    IF i = 0 THEN <<s>> ELSE <<SubSeq(s, 1, i - 1), SubSeq(s, i + 1, Len(s))>>

(***************************************************************************)
(* The wranglers.  pc is the position of __call__: "idle" before the first *)
(* call, "loop" inside the for loop (idx is the position in the sorted     *)
(* list), "returned" after return dfs, "raised" when an exception left     *)
(* __call__.  written logs every assignment dfs[key] = df in order,        *)
(* processed every reference the loop has taken up, stdout every line      *)
(* printed.                                                                *)
(***************************************************************************)
ContentKinds == {"ok", "malformed", "unreachable"}

Ok(df) == [ok |-> TRUE, df |-> df, err |-> ""]
Raise(err) == [ok |-> FALSE, df |-> EmptyDf, err |-> err]

\* pd.read_csv / pd.read_json / pd.read_parquet on the content of a reference
ReadTable(ref) ==
    IF content[ref] = "ok" THEN Ok(DecodedTable(ref)) ELSE Raise("ParserError")

\* The body of the try block of s3DataWrangler.__call__ up to df_raw.
S3Decode(file_key) ==
    IF content[file_key] = "unreachable" THEN Raise("ClientError")
    ELSE IF EndsWith(file_key, ExtCsv) THEN ReadTable(file_key)
    ELSE IF EndsWith(file_key, ExtJson) THEN ReadTable(file_key)
    ELSE IF EndsWith(file_key, ExtParquet) THEN ReadTable(file_key)
    ELSE Raise("Unsupported file type")

\* file_path is a pathlib.Path, and Path has no attribute endswith: evaluating
\* file_path.endswith('.csv') raises AttributeError.
PathHasEndswith == FALSE

\* The body of the try block of LocalDataWrangler.__call__ up to df_raw.
LocalDecode(file_path) ==
    IF ~PathHasEndswith
    THEN Raise("'PosixPath' object has no attribute 'endswith'")
    ELSE IF EndsWith(file_path, ExtCsv) THEN ReadTable(file_path)
    ELSE IF EndsWith(file_path, ExtJson) THEN ReadTable(file_path)
    ELSE IF EndsWith(file_path, ExtParquet) THEN ReadTable(file_path)
    ELSE Raise("Unsupported file type")

\* the slip of keying by the stem of the file name, as the docstring of
\* s3DataWrangler.__call__ words it
S3StemKey(file_key) == ReSplit(file_key)[Len(ReSplit(file_key)) - 1]
\* the key of dfs[file_key] = df
S3DictKey(file_key) == file_key
\* the key of dfs[file_path.stem] = df
LocalDictKey(file_path) == Stem(file_path)

\* the list each for loop iterates
S3RunOrder == Sorted(file_keys)
LocalRunOrder == Sorted(Glob(listing))

NotCalled == [called |-> FALSE, raised |-> FALSE, pairs |-> <<>>]

InitWrangler ==
    /\ variant \in {"s3", "local"}
    /\ listing \in Listings(IF variant = "s3" THEN S3Keys ELSE LocalNames, MaxObjects)
    /\ content \in [Range(listing) -> ContentKinds]
    /\ file_keys = IF variant = "s3" THEN S3FileKeys(listing) ELSE <<>>
    /\ pc = "idle"
    /\ idx = 0
    /\ dfs = <<>>
    /\ written = <<>>
    /\ stdout = <<>>
    /\ processed = <<>>
    /\ prev_processed = <<>>
    /\ calls = 0
    /\ zipped = NotCalled

\* dfs = {} and the start of the loop
StartCall ==
    /\ pc \in {"idle", "returned", "raised"}
    /\ calls < MaxCalls
    /\ calls' = calls + 1
    /\ prev_processed' = processed
    /\ pc' = "loop"
    /\ idx' = 1
    /\ dfs' = <<>>
    /\ written' = <<>>
    /\ stdout' = <<>>
    /\ processed' = <<>>
    /\ UNCHANGED <<variant, listing, content, file_keys, zipped>>

S3Call == variant = "s3" /\ StartCall
LocalCall == variant = "local" /\ StartCall

\* One iteration of the loop of s3DataWrangler.__call__.  On an exception the
\* handler evaluates file_key.name; file_key is a str, so that raises
\* AttributeError inside the handler and the exception leaves __call__.
S3Iterate ==
    /\ variant = "s3"
    /\ pc = "loop"
    /\ idx <= Len(S3RunOrder)
    /\ LET file_key == S3RunOrder[idx]
           out == S3Decode(file_key)
       IN  /\ processed' = Append(processed, file_key)
           /\ IF out.ok
              THEN /\ dfs' = (S3DictKey(file_key) :> CleanDataframe(out.df)) @@ dfs
                   /\ written' = Append(written, S3DictKey(file_key))
                   /\ stdout' = Append(stdout, [kind |-> "key", ref |-> file_key, msg |-> ""])
                   /\ idx' = idx + 1
                   /\ pc' = "loop"
              ELSE /\ pc' = "raised"
                   /\ UNCHANGED <<dfs, written, stdout, idx>>
    /\ UNCHANGED <<variant, listing, content, file_keys, zipped, calls, prev_processed>>

S3Return ==
    /\ variant = "s3"
    /\ pc = "loop"
    /\ idx > Len(S3RunOrder)
    /\ pc' = "returned"
    /\ UNCHANGED <<variant, listing, content, file_keys, idx, dfs, written, stdout,
                   processed, zipped, calls, prev_processed>>

\* One iteration of the loop of LocalDataWrangler.__call__.
LocalIterate ==
    /\ variant = "local"
    /\ pc = "loop"
    /\ idx <= Len(LocalRunOrder)
    /\ LET file_path == LocalRunOrder[idx]
           out == LocalDecode(file_path)
       IN  /\ processed' = Append(processed, file_path)
           /\ IF out.ok
              THEN /\ dfs' = (LocalDictKey(file_path) :> CleanDataframe(out.df)) @@ dfs
                   /\ written' = Append(written, LocalDictKey(file_path))
                   /\ stdout' = stdout
              ELSE /\ stdout' = Append(stdout,
                                  [kind |-> "error", ref |-> file_path, msg |-> out.err])
                   /\ UNCHANGED <<dfs, written>>
    /\ idx' = idx + 1
    /\ UNCHANGED <<variant, listing, content, file_keys, pc, zipped, calls, prev_processed>>

LocalReturn ==
    /\ variant = "local"
    /\ pc = "loop"
    /\ idx > Len(LocalRunOrder)
    /\ pc' = "returned"
    /\ UNCHANGED <<variant, listing, content, file_keys, idx, dfs, written, stdout,
                   processed, zipped, calls, prev_processed>>

\* s3DataWrangler.get_filenames: the keys as listed, each with the third piece
\* of re.split(r"[./]+", key); a key of fewer than three pieces raises IndexError.
S3Filenames ==
    IF \E i \in DOMAIN file_keys : Len(ReSplit(file_keys[i])) < 3
    THEN [called |-> TRUE, raised |-> TRUE, pairs |-> <<>>]
    ELSE [called |-> TRUE, raised |-> FALSE,
          pairs |-> [i \in DOMAIN file_keys |-> <<ReSplit(file_keys[i])[3], file_keys[i]>>]]

\* LocalDataWrangler.get_filenames: the stems of the sorted *.csv paths, each
\* with what follows its last dot, lower-cased; a stem without a dot raises
\* IndexError.
LocalFilenames ==
    LET filenames == [i \in DOMAIN LocalRunOrder |-> Stem(LocalRunOrder[i])] IN
    IF \E i \in DOMAIN filenames : Len(RSplitDot(filenames[i])) < 2
    THEN [called |-> TRUE, raised |-> TRUE, pairs |-> <<>>]
    ELSE [called |-> TRUE, raised |-> FALSE,
          pairs |-> [i \in DOMAIN filenames |->
                        <<StrLower(RSplitDot(filenames[i])[2]), filenames[i]>>]]

S3GetFilenames ==
    /\ variant = "s3"
    /\ ~zipped.called
    /\ zipped' = S3Filenames
    /\ UNCHANGED <<variant, listing, content, file_keys, pc, idx, dfs, written, stdout,
                   processed, calls, prev_processed>>

LocalGetFilenames ==
    /\ variant = "local"
    /\ ~zipped.called
    /\ zipped' = LocalFilenames
    /\ UNCHANGED <<variant, listing, content, file_keys, pc, idx, dfs, written, stdout,
                   processed, calls, prev_processed>>

(***************************************************************************)
(* SchemaGenerator.                                                        *)
(***************************************************************************)
FeatureNames == {"age", "income", "city"}
\* what the cells of the feature matrix hold
DataKinds == {"none", "numbers", "text"}
Paths == {"schema.json", "out/schema.json"}
Absent == [kind |-> "absent"]
OtherFile == [kind |-> "other"]

\* the loop of __call__: schema["properties"][feature] = {"type": "number"}
RECURSIVE AddProperties(_, _, _)
AddProperties(properties, feats, type) ==
    IF feats = <<>> THEN properties
    ELSE AddProperties((Head(feats) :> [type |-> type]) @@ properties, Tail(feats), type)

\* the slip of typing the properties after the data of the feature matrix
InferringSchema(feats) ==
    [kind |-> "schema",
     title |-> "Generated schema for Root",
     type |-> "object",
     properties |-> AddProperties(<<>>, feats,
                        IF features_df.data = "text" THEN "string" ELSE "number"),
     required |-> feats]
\* the schema dict of __call__ after its loop
BuildSchema(feats) ==
    [kind |-> "schema",
     title |-> "Generated schema for Root",
     type |-> "object",
     properties |-> AddProperties(<<>>, feats, "number"),
     required |-> feats]

InitSchema ==
    /\ features_df \in [columns : UNION {[1..k -> FeatureNames] : k \in 0..MaxFeatures},
                        data : DataKinds]
    /\ features = features_df.columns
    /\ filepath \in Paths
    /\ files \in [Paths -> {Absent, OtherFile}]

\* SchemaGenerator.__call__: build the schema, json.dumps it, write the file
\* (mode 'w': an existing file is replaced).
SchemaGeneratorCall ==
    /\ files[filepath].kind # "schema"
    /\ files' = [files EXCEPT ![filepath] = BuildSchema(features)]
    /\ UNCHANGED <<features_df, features, filepath>>

(***************************************************************************)
(* The calls of _clean_column_names and _clean_dataframe on their own.     *)
(***************************************************************************)
NameAlphabet == {"a", "B", " ", "(", ")"}
BoundedNames == UNION {[1..k -> NameAlphabet] : k \in 0..MaxNameLen}
SampleNames == {ColUnitPrice, ColCity, ColQty}
NoName == [done |-> FALSE, name |-> <<>>]

InitNames ==
    /\ col \in BoundedNames \cup SampleNames
    /\ clean1 = NoName
    /\ clean2 = NoName

\* _clean_column_names([col])
CleanColumnNamesCall ==
    /\ ~clean1.done
    /\ clean1' = [done |-> TRUE, name |-> CleanColumnNames(<<col>>)[1]]
    /\ UNCHANGED <<col, clean2>>

\* _clean_column_names on the name it returned
CleanColumnNamesAgain ==
    /\ clean1.done
    /\ ~clean2.done
    /\ clean2' = [done |-> TRUE, name |-> CleanColumnNames(<<clean1.name>>)[1]]
    /\ UNCHANGED <<col, clean1>>

\* The decoded tables _clean_dataframe is called on: one, or two, columns and
\* up to MaxRows rows; object columns hold str values or NaN.
ObjectCells == {Str(<<"a">>), Str(<<"A", " ">>), Str(<<" ", "b">>), NaN}
IntCells == {Int64(1), Int64(2)}
CellsOf(dtype) == IF dtype = "object" THEN ObjectCells ELSE IntCells
SampleSchemas ==
    { [columns |-> <<ColCity>>, dtypes |-> <<"object">>],
      [columns |-> <<ColCity, ColQty>>, dtypes |-> <<"object", "int64">>],
      [columns |-> <<ColUnitPrice, ColCity>>, dtypes |-> <<"int64", "object">>],
      [columns |-> <<ColCity, ColUnitPrice>>, dtypes |-> <<"object", "object">>] }
RowsOf(dtypes) ==
    IF Len(dtypes) = 1
    THEN {<<a>> : a \in CellsOf(dtypes[1])}
    ELSE {<<a, b>> : a \in CellsOf(dtypes[1]), b \in CellsOf(dtypes[2])}
NoTable == [done |-> FALSE, df |-> EmptyDf]

InitClean ==
    /\ \E sch \in SampleSchemas : \E n \in 0..MaxRows :
          \E rows \in [1..n -> RowsOf(sch.dtypes)] :
              df_raw = [columns |-> sch.columns, dtypes |-> sch.dtypes, rows |-> rows]
    /\ df_clean = NoTable

\* df = self._clean_dataframe(df_raw)
CleanDataframeCall ==
    /\ ~df_clean.done
    /\ df_clean' = [done |-> TRUE, df |-> CleanDataframe(df_raw)]
    /\ UNCHANGED df_raw

(***************************************************************************)
(* Specifications: one per part of the program; the variables of the other *)
(* parts are held at a fixed value.                                        *)
(***************************************************************************)
NamesIdle == col = <<>> /\ clean1 = NoName /\ clean2 = NoName
CleanIdle == df_raw = EmptyDf /\ df_clean = NoTable
WranglerIdle ==
    /\ variant = "none" /\ listing = <<>> /\ content = <<>> /\ file_keys = <<>>
    /\ pc = "idle" /\ idx = 0 /\ dfs = <<>> /\ written = <<>> /\ stdout = <<>>
    /\ processed = <<>> /\ prev_processed = <<>> /\ calls = 0 /\ zipped = NotCalled
SchemaIdle ==
    /\ features_df = [columns |-> <<>>, data |-> "none"] /\ features = <<>>
    /\ filepath = "schema.json" /\ files = [p \in Paths |-> Absent]

InitNamesOnly == InitNames /\ CleanIdle /\ WranglerIdle /\ SchemaIdle
NextNames ==
    \/ CleanColumnNamesCall /\ UNCHANGED <<cleanVars, wranglerVars, schemaVars>>
    \/ CleanColumnNamesAgain /\ UNCHANGED <<cleanVars, wranglerVars, schemaVars>>
SpecNames == InitNamesOnly /\ [][NextNames]_vars

InitCleanOnly == InitClean /\ NamesIdle /\ WranglerIdle /\ SchemaIdle
NextClean == CleanDataframeCall /\ UNCHANGED <<namesVars, wranglerVars, schemaVars>>
SpecClean == InitCleanOnly /\ [][NextClean]_vars

InitWranglerOnly == InitWrangler /\ NamesIdle /\ CleanIdle /\ SchemaIdle
NextWrangler ==
    \/ S3Call /\ UNCHANGED <<namesVars, cleanVars, schemaVars>>
    \/ S3Iterate /\ UNCHANGED <<namesVars, cleanVars, schemaVars>>
    \/ S3Return /\ UNCHANGED <<namesVars, cleanVars, schemaVars>>
    \/ S3GetFilenames /\ UNCHANGED <<namesVars, cleanVars, schemaVars>>
    \/ LocalCall /\ UNCHANGED <<namesVars, cleanVars, schemaVars>>
    \/ LocalIterate /\ UNCHANGED <<namesVars, cleanVars, schemaVars>>
    \/ LocalReturn /\ UNCHANGED <<namesVars, cleanVars, schemaVars>>
    \/ LocalGetFilenames /\ UNCHANGED <<namesVars, cleanVars, schemaVars>>
SpecWrangler == InitWranglerOnly /\ [][NextWrangler]_vars

InitSchemaOnly == InitSchema /\ NamesIdle /\ CleanIdle /\ WranglerIdle
NextSchema == SchemaGeneratorCall /\ UNCHANGED <<namesVars, cleanVars, wranglerVars>>
SpecSchema == InitSchemaOnly /\ [][NextSchema]_vars

(***************************************************************************)
(* Properties of _clean_column_names (under SpecNames).                    *)
(***************************************************************************)
NoLowerNoSpace(name) == \A i \in DOMAIN name : ~IsLower(name[i]) /\ ~IsSpace(name[i])
NoParenthesis(name) == \A i \in DOMAIN name : name[i] \notin {"(", ")"}
\* some "(" of the name has a ")" after it
HasSpan(name) == \E i, j \in DOMAIN name : i < j /\ name[i] = "(" /\ name[j] = ")"
\* the parentheses of the name are balanced and not nested: depth stays in 0..1
RECURSIVE FlatFrom(_, _, _)
FlatFrom(name, i, depth) ==
    IF i > Len(name) THEN depth = 0
    ELSE IF name[i] = "(" THEN depth = 0 /\ FlatFrom(name, i + 1, 1)
    ELSE IF name[i] = ")" THEN depth = 1 /\ FlatFrom(name, i + 1, 0)
    ELSE FlatFrom(name, i + 1, depth)
FlatParentheses(name) == FlatFrom(name, 1, 0)
UnitPrice == <<"U","N","I","T","_","P","R","I","C","E">>

\* C6: transform is idempotent: applying _clean_column_names to a name it
\* returned gives that name back.
C6_Idempotent == clean2.done => clean2.name = clean1.name
C6_Witness ==
    /\ clean2.done
    /\ HasSpan(col)
    /\ \E i \in DOMAIN col : col[i] = " "
    /\ clean1.name # col
    /\ clean1.name # <<>>

\* C7 as stated: for every non-empty name the output of transform holds no
\* parenthesis character, no lower-case letter and no space.
C7_NoParenthesisEver ==
    (clean1.done /\ col # <<>>) =>
        NoLowerNoSpace(clean1.name) /\ NoParenthesis(clean1.name)
\* C7 as amended: the output never holds a lower-case letter or a space, and
\* never a "(" with a ")" after it; when the parentheses of the name are
\* balanced and not nested every span is removed and no parenthesis character
\* is left ("Unit Price (USD)" becomes "UNIT_PRICE"); an unmatched or nested
\* parenthesis may stay.
C7_Amended ==
    clean1.done =>
        /\ NoLowerNoSpace(clean1.name)
        /\ ~HasSpan(clean1.name)
        /\ FlatParentheses(col) => NoParenthesis(clean1.name)
        /\ col = ColUnitPrice => clean1.name = UnitPrice
C7_Witness == clean1.done /\ col = ColUnitPrice /\ clean1.name = UnitPrice

(***************************************************************************)
(* Properties of _clean_dataframe (under SpecClean).                       *)
(***************************************************************************)
\* the rows of the input that equal an earlier row of the input
ExactDuplicates(df) ==
    {i \in DOMAIN df.rows : \E j \in 1..(i - 1) : df.rows[j] = df.rows[i]}
\* two cells of a column that are equal once text is stripped and lower-cased
SameCell(dtype, a, b) ==
    IF dtype = "object" /\ a.kind = "str" /\ b.kind = "str"
    THEN StrLower(StrStrip(a.s)) = StrLower(StrStrip(b.s))
    ELSE a = b
\* the rows of the input that equal an earlier row once text is normalized
NormalizedDuplicates(df) ==
    {i \in DOMAIN df.rows :
        \E j \in 1..(i - 1) :
            \A c \in DOMAIN df.dtypes : SameCell(df.dtypes[c], df.rows[j][c], df.rows[i][c])}

\* C4 as stated: the output has the input's row count minus the number of
\* input rows that are exact duplicates of an earlier input row.
C4_ExactDuplicateCount ==
    df_clean.done =>
        /\ Len(df_clean.df.rows) <= Len(df_raw.rows)
        /\ Len(df_clean.df.rows) = Len(df_raw.rows) - Cardinality(ExactDuplicates(df_raw))
\* C4 as amended: the output row count is at most the input row count and is
\* the input row count minus the number of input rows that equal an earlier
\* input row after the text columns are stripped and lower-cased.
C4_Amended ==
    df_clean.done =>
        /\ Len(df_clean.df.rows) <= Len(df_raw.rows)
        /\ Len(df_clean.df.rows) =
              Len(df_raw.rows) - Cardinality(NormalizedDuplicates(df_raw))
C4_Witness ==
    /\ df_clean.done
    /\ ExactDuplicates(df_raw) = {}
    /\ Len(df_clean.df.rows) < Len(df_raw.rows)
    /\ Len(df_clean.df.rows) >= 2

\* out is the text value in stripped and lower-cased: in, lower-cased, is out
\* between two runs of whitespace, and out neither starts nor ends with one
AllSpace(s) == \A i \in DOMAIN s : IsSpace(s[i])
IsStrippedLowerOf(out, in) ==
    /\ \A i \in DOMAIN out : ~IsUpper(out[i])
    /\ out # <<>> => ~IsSpace(out[1]) /\ ~IsSpace(out[Len(out)])
    /\ \E a \in 0..Len(in) :
          /\ a + Len(out) <= Len(in)
          /\ AllSpace(SubSeq(in, 1, a))
          /\ SubSeq(StrLower(in), a + 1, a + Len(out)) = out
          /\ AllSpace(SubSeq(in, a + Len(out) + 1, Len(in)))
\* the output row is the input row with its text values stripped and
\* lower-cased and the columns of another dtype as they were
IsNormalizedRowOf(dtypes, out, in) ==
    \A c \in DOMAIN dtypes :
        IF dtypes[c] = "object" /\ in[c].kind = "str"
        THEN out[c].kind = "str" /\ IsStrippedLowerOf(out[c].s, in[c].s)
        ELSE out[c] = in[c]

C9_Schema ==
    files[filepath].kind = "schema" =>
        /\ files[filepath].type = "object"
        /\ files[filepath].required = features_df.columns
        /\ DOMAIN files[filepath].properties = Range(features_df.columns)
        /\ \A name \in Range(features_df.columns) :
              files[filepath].properties[name] = [type |-> "number"]
C9_Witness ==
    /\ files[filepath].kind = "schema"
    /\ features_df.columns = <<"age", "income">>
    /\ features_df.data = "text"
    /\ files[filepath].required = <<"age", "income">>

(***************************************************************************)
(* Properties of the wranglers (under SpecWrangler).                       *)
(***************************************************************************)
\* the references __call__ iterates, as enumerated and in the order iterated
Enumerated == IF variant = "s3" THEN file_keys ELSE Glob(listing)
RunOrder == IF variant = "s3" THEN S3RunOrder ELSE LocalRunOrder
KeyOf(ref) == IF variant = "s3" THEN S3DictKey(ref) ELSE LocalDictKey(ref)
\* a reference whose fetch, decode and normalization all succeed: its content
\* is well formed and its extension is one of the three decoded
Supported(ref) ==
    EndsWith(ref, ExtCsv) \/ EndsWith(ref, ExtJson) \/ EndsWith(ref, ExtParquet)
Succeeds(ref) == content[ref] = "ok" /\ Supported(ref)
HasDiagnostic(ref) ==
    \E i \in DOMAIN stdout : stdout[i].kind = "error" /\ stdout[i].ref = ref

\* C1: in the object-store variant a failing reference never makes run()
\* raise: a diagnostic naming it is printed, the loop goes on, and run()
\* returns the tables of every reference that succeeded.
C1_FailureIsolated ==
    variant = "s3" =>
        /\ pc # "raised"
        /\ \A i \in DOMAIN processed :
              ~Succeeds(processed[i]) => HasDiagnostic(processed[i])
        /\ pc = "returned" =>
              DOMAIN dfs = {S3DictKey(r) : r \in {e \in Range(file_keys) : Succeeds(e)}}

\* C2: in the local variant run() returns exactly the stems of the valid CSV
\* files, each mapped to its cleaned table, and a diagnostic is printed for
\* each malformed file.
C2_ValidFilesReturned ==
    (variant = "local" /\ pc = "returned") =>
        LET globbed == Range(Glob(listing))
            valid == {f \in globbed : Succeeds(f)}
        IN  /\ DOMAIN dfs = {Stem(f) : f \in valid}
            /\ \A f \in valid : dfs[Stem(f)] = CleanDataframe(DecodedTable(f))
            /\ \A f \in globbed \ valid : HasDiagnostic(f)

\* C3: get_filenames returns one (short name, lookup key) pair per reference
\* that run() iterates, the lookup keys being the keys of the result mapping
\* in the order in which run() processes the references.
C3_FilenamesMatchRun ==
    zipped.called =>
        /\ ~zipped.raised
        /\ Len(zipped.pairs) = Len(RunOrder)
        /\ \A i \in DOMAIN zipped.pairs : zipped.pairs[i][2] = KeyOf(RunOrder[i])

StrictlyIncreasing(seq) ==
    \A i, j \in DOMAIN seq : i < j => StrLess(seq[i], seq[j])
MapKeyOf(seq) == [i \in DOMAIN seq |-> KeyOf(seq[i])]
InResult(ref) == KeyOf(ref) \in DOMAIN dfs

\* C8: every call processes the references in lexicographic order without
\* skipping one, a returned call has processed them all, the keys are
\* inserted in that order, and a later call against the unchanged source
\* processes the same references in the same order.
C8_LexicographicOrder ==
    /\ StrictlyIncreasing(processed)
    /\ Range(processed) \subseteq Range(Enumerated)
    /\ \A r \in Range(Enumerated) : \A p \in Range(processed) :
          StrLess(r, p) => r \in Range(processed)
    /\ pc = "returned" => Range(processed) = Range(Enumerated)
    /\ written = MapKeyOf(SelectSeq(processed, InResult))
    /\ (calls >= 2 /\ pc \in {"returned", "raised"}) => processed = prev_processed
C8_Witness ==
    /\ calls = 2
    /\ pc = "returned"
    /\ Len(written) >= 2
    /\ Len(processed) >= 3
    /\ ~StrictlyIncreasing(Enumerated)

NoKeyWrittenTwice == \A i, j \in DOMAIN written : i # j => written[i] # written[j]

====
